---- MODULE Spec2Model ----
(***************************************************************************)
(* Clustering evaluation toolbox (src/src/clustering_eval_toolbox.py).     *)
(*                                                                         *)
(* Python scalars are written as the text Python prints for them:          *)
(*   "nan"            the float NaN (a missing cell)                        *)
(*   "1.0", "2.0"     float64 numbers                                      *)
(*   "0", "6", "18"   int64 numbers (the unit test's frame)                *)
(*   "'1.0'", "'a'"   str objects (quotes are part of the text)            *)
(* Counts (len(...), shape[0]) are TLA+ naturals.                          *)
(***************************************************************************)
EXTENDS Integers, Sequences, FiniteSets, TLC

VARIABLES
    pc,                   \* position of clustering_evaluation
    phenotype_df,         \* the phenotype spreadsheet as read from file
    cluster_labels_df,    \* the cluster mapping as read from file
    threshold,            \* run_parameters["threshold"]
    cluster_phenotype_df, \* result of combine_phenotype_data_and_clustering
    output_dict,          \* result of run_post_processing_phenotype_clustering_data
    pos,                  \* <<key index, item index>> of the loops of lines 131-139
    result_df,            \* the summary frame being filled, a sequence of columns
    file,                 \* what to_csv wrote, <<>> while nothing is written
    apc,                  \* position of a direct call of a test adapter
    group,                \* the two-column frame handed to a test adapter
    ret,                  \* the list the adapter returned
    call                  \* the call the adapter made to scipy.stats

vars == <<pc, phenotype_df, cluster_labels_df, threshold, cluster_phenotype_df,
          output_dict, pos, result_df, file, apc, group, ret, call>>

pipelineVars == <<pc, phenotype_df, cluster_labels_df, threshold,
                  cluster_phenotype_df, output_dict, pos, result_df, file>>

adapterVars == <<apc, group, ret, call>>

-----------------------------------------------------------------------------
(* Bounds *)

MaxCells == 3        \* attribute cells (rows x columns) of the phenotype spreadsheet
MaxNum == 1          \* distinct float values a numeric cell can take
MaxCluster == 1      \* distinct cluster labels of the mapping file
MaxThreshold == 1    \* largest run_parameters["threshold"]
MaxRows == 4         \* rows of a frame handed directly to a test adapter

-----------------------------------------------------------------------------
(* Scalars *)

NaN == "nan"

FloatLit == <<"1.0", "2.0", "3.0", "4.0">>

Floats == {FloatLit[i] : i \in 1..MaxNum}

ClusterLabels == {FloatLit[i] : i \in 1..MaxCluster}

Texts == {"'A'", "'a'"}

UnitClusters == {"0", "1", "2"}

UnitTraits == {"6", "18"}

\* Series.astype(str): the str of a float, a str stays what it is
astype_str(x) ==
    CASE x = "1.0" -> "'1.0'"
      [] x = "2.0" -> "'2.0'"
      [] x = "3.0" -> "'3.0'"
      [] x = "4.0" -> "'4.0'"
      [] x = "nan" -> "'nan'"
      [] OTHER -> x

\* Series.str.lower()
str_lower(x) ==
    CASE x = "'A'" -> "'a'"
      [] OTHER -> x

\* Python's < on the scalars of one type: numbers by value, str by code point
Ascending ==
    <<"0", "1", "2", "3", "6", "18", "22",
      "1.0", "2.0", "3.0", "4.0",
      "'1.0'", "'2.0'", "'3.0'", "'4.0'", "'A'", "'a'", "'nan'">>

Rank(x) == CHOOSE i \in 1..Len(Ascending) : Ascending[i] = x

RECURSIVE sorted_reverse(_)
\* sorted(..., reverse=True)
sorted_reverse(S) ==
    IF S = {} THEN <<>>
    ELSE LET m == CHOOSE x \in S : \A y \in S : Rank(x) >= Rank(y)
         IN <<m>> \o sorted_reverse(S \ {m})

RECURSIVE sorted(_)
\* sorted(set(...)), also the order of np.unique
sorted(S) ==
    IF S = {} THEN <<>>
    ELSE LET m == CHOOSE x \in S : \A y \in S : Rank(x) <= Rank(y)
         IN <<m>> \o sorted(S \ {m})

Range(s) == {s[i] : i \in 1..Len(s)}

\* dict(zip(uniq, range(len(uniq)))): the zero-based position in np.unique
zip_range(uniq) == [x \in Range(uniq) |-> (CHOOSE i \in 1..Len(uniq) : uniq[i] = x) - 1]

-----------------------------------------------------------------------------
(* Test adapters.  A two-column frame is                                   *)
(*   [name |-> second column's name, dtype |-> second column's dtype,      *)
(*    rows |-> sequence of [sample, Cluster_ID, val]]                      *)

NoCall == [routine |-> "none", args |-> <<>>]

Column(rows, c) == [i \in 1..Len(rows) |-> IF c = 0 THEN rows[i].Cluster_ID ELSE rows[i].val]

RECURSIVE loc_values(_, _)
\* phenotype_df.loc[phenotype_df['Cluster_ID'] == i, phenotype_name].values.tolist()
loc_values(rows, i) ==
    IF rows = <<>> THEN <<>>
    ELSE (IF Head(rows).Cluster_ID = i THEN <<Head(rows).val>> ELSE <<>>)
         \o loc_values(Tail(rows), i)

\* f_oneway without the test of line 71
f_oneway_no_empty_test(phenotype_df_) ==
    LET rows == phenotype_df_.rows
        uniq_trait == sorted(Range(Column(rows, 1)))
        uniq_cluster == sorted(Range(Column(rows, 0)))
        uniq_cm_vals == sorted(Range(Column(rows, 0)))
        groups == [k \in 1..Len(uniq_cm_vals) |-> loc_values(rows, uniq_cm_vals[k])]
    IN IF Len(uniq_cluster) = 1
       THEN [ret |-> <<"f_oneway", Len(uniq_trait), Len(rows), NaN, NaN>>, call |-> NoCall]
       ELSE [ret |-> <<"f_oneway", Len(uniq_trait), Len(rows), "fval", "pval">>,
             call |-> [routine |-> "stats.f_oneway", args |-> groups]]

\* f_oneway counting the distinct values of column 0 at line 74
f_oneway_wrong_column(phenotype_df_) ==
    LET rows == phenotype_df_.rows
        uniq_trait == sorted(Range(Column(rows, 0)))
        uniq_cluster == sorted(Range(Column(rows, 0)))
        uniq_cm_vals == sorted(Range(Column(rows, 0)))
        groups == [k \in 1..Len(uniq_cm_vals) |-> loc_values(rows, uniq_cm_vals[k])]
    IN IF rows = <<>>
       THEN [ret |-> <<"f_oneway", 0, 0, NaN, NaN>>, call |-> NoCall]
       ELSE IF Len(uniq_cluster) = 1
       THEN [ret |-> <<"f_oneway", Len(uniq_trait), Len(rows), NaN, NaN>>, call |-> NoCall]
       ELSE [ret |-> <<"f_oneway", Len(uniq_trait), Len(rows), "fval", "pval">>,
             call |-> [routine |-> "stats.f_oneway", args |-> groups]]

f_oneway(phenotype_df_) ==
    LET rows == phenotype_df_.rows
        uniq_trait == sorted(Range(Column(rows, 1)))
        uniq_cluster == sorted(Range(Column(rows, 0)))
        uniq_cm_vals == sorted(Range(Column(rows, 0)))
        groups == [k \in 1..Len(uniq_cm_vals) |-> loc_values(rows, uniq_cm_vals[k])]
    IN IF rows = <<>>
       THEN [ret |-> <<"f_oneway", 0, 0, NaN, NaN>>, call |-> NoCall]
       ELSE IF Len(uniq_cluster) = 1
       THEN [ret |-> <<"f_oneway", Len(uniq_trait), Len(rows), NaN, NaN>>, call |-> NoCall]
       ELSE [ret |-> <<"f_oneway", Len(uniq_trait), Len(rows), "fval", "pval">>,
             call |-> [routine |-> "stats.f_oneway", args |-> groups]]

RECURSIVE fill_cont_table_assign(_, _, _, _)
\* the loop with cont_table[clus, trt] = 1 at line 114
fill_cont_table_assign(cont_table, rows, cluster_dict, phenotype_val_dict) ==
    IF rows = <<>> THEN cont_table
    ELSE LET clus == cluster_dict[Head(rows).Cluster_ID]
             trt == phenotype_val_dict[Head(rows).val]
         IN fill_cont_table_assign(
                [cont_table EXCEPT ![clus][trt] = 1],
                Tail(rows), cluster_dict, phenotype_val_dict)

RECURSIVE fill_cont_table(_, _, _, _)
\* the loop of lines 111-114: one increment per row of the frame
fill_cont_table(cont_table, rows, cluster_dict, phenotype_val_dict) ==
    IF rows = <<>> THEN cont_table
    ELSE LET clus == cluster_dict[Head(rows).Cluster_ID]
             trt == phenotype_val_dict[Head(rows).val]
         IN fill_cont_table(
                [cont_table EXCEPT ![clus][trt] = @ + 1],
                Tail(rows), cluster_dict, phenotype_val_dict)

chisquare(phenotype_df_) ==
    LET rows == phenotype_df_.rows
        uniq_category == sorted(Range(Column(rows, 1)))
        uniq_cluster == sorted(Range(Column(rows, 0)))
        num_clusters == Len(uniq_cluster)
        num_phenotype == Len(uniq_category)
        phenotype_val_dict == zip_range(uniq_category)
        cluster_dict == zip_range(uniq_cluster)
        zeros == [i \in 0..(num_clusters - 1) |-> [j \in 0..(num_phenotype - 1) |-> 0]]
        cont_table == fill_cont_table(zeros, rows, cluster_dict, phenotype_val_dict)
    IN IF rows = <<>>
       THEN [ret |-> <<"chisquare", 0, 0, NaN, NaN>>, call |-> NoCall]
       ELSE [ret |-> <<"chisquare", num_phenotype, Len(rows), "chi", "pval">>,
             call |-> [routine |-> "stats.chi2_contingency", args |-> cont_table]]

-----------------------------------------------------------------------------
(* The pipeline.  A spreadsheet is                                         *)
(*   [index |-> sequence of sample ids,                                    *)
(*    columns |-> sequence of [name, dtype, values]]                       *)
(* with values[i] the cell of row i.                                       *)

AttrNames == <<"age", "sex", "grade", "stage", "site", "batch">>

CONTINUOUS == "continuous"

CATEGORICAL == "categorical"

RECURSIVE select_rows(_, _)
\* the entries of a sequence at the positions of a set, in order
select_rows(seq, keep) ==
    IF seq = <<>> THEN <<>>
    ELSE select_rows(SubSeq(seq, 1, Len(seq) - 1), keep)
         \o (IF Len(seq) \in keep THEN <<seq[Len(seq)]>> ELSE <<>>)

\* the two frames merged on their common samples only (an inner join)
combine_inner_join(phenotype_df_, cluster_labels_df_) ==
    LET n == Len(phenotype_df_.index)
        common_samples == Range(phenotype_df_.index) \cap DOMAIN cluster_labels_df_
        keep == {i \in 1..n : phenotype_df_.index[i] \in common_samples}
        index == select_rows(phenotype_df_.index, keep)
        Cluster_ID == [i \in 1..Len(index) |-> cluster_labels_df_[index[i]]]
    IN [index |-> index,
        columns |-> <<[name |-> "Cluster_ID", dtype |-> "float64", values |-> Cluster_ID]>>
                    \o [j \in 1..Len(phenotype_df_.columns) |->
                          [name |-> phenotype_df_.columns[j].name,
                           dtype |-> phenotype_df_.columns[j].dtype,
                           values |-> select_rows(phenotype_df_.columns[j].values, keep)]]]

combine_phenotype_data_and_clustering(phenotype_df_, cluster_labels_df_) ==
    LET n == Len(phenotype_df_.index)
        common_samples == Range(phenotype_df_.index) \cap DOMAIN cluster_labels_df_
        Cluster_ID ==
            [i \in 1..n |->
                IF phenotype_df_.index[i] \in common_samples
                THEN cluster_labels_df_[phenotype_df_.index[i]]
                ELSE NaN]
    IN [index |-> phenotype_df_.index,
        columns |-> <<[name |-> "Cluster_ID", dtype |-> "float64", values |-> Cluster_ID]>>
                    \o phenotype_df_.columns]

\* the column of that name, as df[name] finds it
getitem(df, name) ==
    df.columns[CHOOSE i \in 1..Len(df.columns) : df.columns[i].name = name]

RECURSIVE dropna_rows(_, _, _, _)
\* cluster_phenotype_df[['Cluster_ID', column]].dropna(axis=0), from row i on
dropna_rows(index, cluster, column, i) ==
    IF i > Len(index) THEN <<>>
    ELSE (IF cluster.values[i] = NaN \/ column.values[i] = NaN
          THEN <<>>
          ELSE <<[sample |-> index[i], Cluster_ID |-> cluster.values[i],
                  val |-> column.values[i]]>>)
         \o dropna_rows(index, cluster, column, i + 1)

\* cur_df.apply(lambda x: x.astype(str).str.lower()): DataFrame.apply on a
\* frame without rows does not call the function and returns a copy
apply_lowercase(cur_df) ==
    IF cur_df.rows = <<>> THEN cur_df
    ELSE [name |-> cur_df.name,
          dtype |-> "object",
          rows |-> [i \in 1..Len(cur_df.rows) |->
                      [sample |-> cur_df.rows[i].sample,
                       Cluster_ID |-> str_lower(astype_str(cur_df.rows[i].Cluster_ID)),
                       val |-> str_lower(astype_str(cur_df.rows[i].val))]]]

\* output_dict[classification].append(item) on a defaultdict(list); a dict is
\* the sequence of its <<key, value>> entries in insertion order
\* output_dict[classification].insert(0, item)
append_to_front(output_dict_, classification, item) ==
    IF \E k \in 1..Len(output_dict_) : output_dict_[k].key = classification
    THEN [k \in 1..Len(output_dict_) |->
            IF output_dict_[k].key = classification
            THEN [key |-> classification, list |-> <<item>> \o output_dict_[k].list]
            ELSE output_dict_[k]]
    ELSE Append(output_dict_, [key |-> classification, list |-> <<item>>])

append_to(output_dict_, classification, item) ==
    IF \E k \in 1..Len(output_dict_) : output_dict_[k].key = classification
    THEN [k \in 1..Len(output_dict_) |->
            IF output_dict_[k].key = classification
            THEN [key |-> classification, list |-> Append(output_dict_[k].list, item)]
            ELSE output_dict_[k]]
    ELSE Append(output_dict_, [key |-> classification, list |-> <<item>>])

\* what one pass of the loop body of lines 48-60 does with column i:
\* "skip" (Cluster_ID), "drop", CONTINUOUS or CATEGORICAL
cleaned(cluster_phenotype_df_, i) ==
    apply_lowercase(
        [name |-> cluster_phenotype_df_.columns[i].name,
         dtype |-> cluster_phenotype_df_.columns[i].dtype,
         rows |-> dropna_rows(cluster_phenotype_df_.index,
                              getitem(cluster_phenotype_df_, "Cluster_ID"),
                              cluster_phenotype_df_.columns[i], 1)])

\* lines 54 and 56 with >= for >
classification_of_ge(cluster_phenotype_df_, threshold_, i) ==
    LET cur_df_lowercase == cleaned(cluster_phenotype_df_, i)
        num_uniq_value == Cardinality(Range(Column(cur_df_lowercase.rows, 1)))
    IN IF cluster_phenotype_df_.columns[i].name = "Cluster_ID" THEN "skip"
       ELSE IF cur_df_lowercase.dtype = "object" /\ num_uniq_value >= threshold_ THEN "drop"
       ELSE IF num_uniq_value >= threshold_ THEN CONTINUOUS
       ELSE CATEGORICAL

classification_of(cluster_phenotype_df_, threshold_, i) ==
    LET cur_df_lowercase == cleaned(cluster_phenotype_df_, i)
        num_uniq_value == Cardinality(Range(Column(cur_df_lowercase.rows, 1)))
    IN IF cluster_phenotype_df_.columns[i].name = "Cluster_ID" THEN "skip"
       ELSE IF cur_df_lowercase.dtype = "object" /\ num_uniq_value > threshold_ THEN "drop"
       ELSE IF num_uniq_value > threshold_ THEN CONTINUOUS
       ELSE CATEGORICAL

RECURSIVE post_processing_from(_, _, _, _)
post_processing_from(cluster_phenotype_df_, threshold_, i, output_dict_) ==
    IF i > Len(cluster_phenotype_df_.columns) THEN output_dict_
    ELSE LET classification == classification_of(cluster_phenotype_df_, threshold_, i)
         IN post_processing_from(
                cluster_phenotype_df_, threshold_, i + 1,
                IF classification \in {"skip", "drop"} THEN output_dict_
                ELSE append_to(output_dict_, classification,
                               cleaned(cluster_phenotype_df_, i)))

run_post_processing_phenotype_clustering_data(cluster_phenotype_df_, threshold_) ==
    post_processing_from(cluster_phenotype_df_, threshold_, 1, <<>>)

\* result_df[phenotype_name] = record: a new column goes last, an existing one
\* is overwritten in place
setitem(result_df_, phenotype_name, record) ==
    IF \E c \in 1..Len(result_df_) : result_df_[c].name = phenotype_name
    THEN [c \in 1..Len(result_df_) |->
            IF result_df_[c].name = phenotype_name
            THEN [name |-> phenotype_name, data |-> record]
            ELSE result_df_[c]]
    ELSE Append(result_df_, [name |-> phenotype_name, data |-> record])

na_rep(x) == IF x = NaN THEN "NA" ELSE x

\* result_df.T.to_csv(header=True, index=True, sep='\t', na_rep='NA'):
\* the header line, then one line per column of result_df
to_csv_T(result_df_) ==
    <<<<"", "Measure", "Trait_length_after_dropna", "Sample_number_after_dropna",
        "chi/fval", "pval">>>>
    \o [c \in 1..Len(result_df_) |->
           <<result_df_[c].name, result_df_[c].data[1], result_df_[c].data[2],
             result_df_[c].data[3], na_rep(result_df_[c].data[4]),
             na_rep(result_df_[c].data[5])>>]

-----------------------------------------------------------------------------
(* Inputs *)

\* columns read_csv can produce for n rows: a float64 column of numbers and
\* NaN, or an object column holding at least one str; without rows every
\* column is an object column
ColumnsOf(n, name) ==
    IF n = 0 THEN {[name |-> name, dtype |-> "object", values |-> <<>>]}
    ELSE {[name |-> name, dtype |-> "float64", values |-> v] :
             v \in [1..n -> Floats \cup {NaN}]}
         \cup
         {[name |-> name, dtype |-> "object", values |-> v] :
             v \in {w \in [1..n -> Texts \cup {NaN}] : \E i \in 1..n : w[i] # NaN}}

\* spreadsheets of n rows (sample ids 1..n) and k named attribute columns,
\* at most MaxCells cells in all
SpreadsheetsOf(n, k) ==
    {[index |-> [i \in 1..n |-> i], columns |-> cols] :
        cols \in {c \in [1..k -> UNION {ColumnsOf(n, AttrNames[j]) : j \in 1..k}] :
                    \A j \in 1..k : c[j].name = AttrNames[j]}}

Spreadsheets ==
    UNION {SpreadsheetsOf(x[1], x[2]) :
              x \in {y \in (0..MaxCells) \X (0..MaxCells) : y[1] * y[2] <= MaxCells}}

\* the mapping file: a cluster label for some of the sample ids of the
\* spreadsheet and possibly for sample 0, which no spreadsheet has
Mappings(n) == UNION {[D -> ClusterLabels] : D \in SUBSET (0..n)}

Thresholds == (0 - 1)..MaxThreshold

NoFrame == [name |-> "", dtype |-> "", rows |-> <<>>]

NoSpreadsheet == [index |-> <<>>, columns |-> <<>>]

\* the frame of test_f_oneway.py
UnitTestFrame ==
    LET Cluster_ID == <<"0", "1", "3", "2", "1", "0", "1", "2">>
        age == <<"6", "18", "22", "6", "6", "22", "18", "18">>
    IN [name |-> "age", dtype |-> "int64",
        rows |-> [i \in 1..8 |-> [sample |-> i, Cluster_ID |-> Cluster_ID[i], val |-> age[i]]]]

\* frames of up to MaxRows rows over the unit test's values
UnitFrames ==
    {UnitTestFrame} \cup
    UNION {
        {[name |-> "age", dtype |-> "int64",
          rows |-> [i \in 1..n |-> [sample |-> i, Cluster_ID |-> c[i], val |-> v[i]]]] :
            c \in [1..n -> UnitClusters], v \in [1..n -> UnitTraits]} :
        n \in 0..MaxRows}

-----------------------------------------------------------------------------
(* clustering_evaluation *)

Init ==
    /\ pc = "start"
    /\ phenotype_df \in Spreadsheets
    /\ cluster_labels_df \in Mappings(Len(phenotype_df.index))
    /\ threshold \in Thresholds
    /\ cluster_phenotype_df = NoSpreadsheet
    /\ output_dict = <<>>
    /\ pos = <<1, 1>>
    /\ result_df = <<>>
    /\ file = <<>>
    /\ apc = <<"none", "idle">>
    /\ group = NoFrame
    /\ ret = <<>>
    /\ call = NoCall

\* line 125
Combine ==
    /\ pc = "start"
    /\ cluster_phenotype_df' =
           combine_phenotype_data_and_clustering(phenotype_df, cluster_labels_df)
    /\ pc' = "combined"
    /\ UNCHANGED <<phenotype_df, cluster_labels_df, threshold, output_dict, pos,
                   result_df, file, adapterVars>>

\* line 125 raises: a file is missing or is not a spreadsheet of this shape
\* (kn.get_spreadsheet_df, pd.read_csv, the one column name of line 29);
\* phenotype_df and cluster_labels_df are then what the files were meant to be
CombineRaises ==
    /\ pc = "start"
    /\ pc' = "aborted"
    /\ UNCHANGED <<phenotype_df, cluster_labels_df, threshold, cluster_phenotype_df,
                   output_dict, pos, result_df, file, adapterVars>>

\* lines 126-129
Classify ==
    /\ pc = "combined"
    /\ output_dict' =
           run_post_processing_phenotype_clustering_data(cluster_phenotype_df, threshold)
    /\ pos' = <<1, 1>>
    /\ result_df' = <<>>
    /\ pc' = "evaluate"
    /\ UNCHANGED <<phenotype_df, cluster_labels_df, threshold, cluster_phenotype_df,
                   file, adapterVars>>

\* the loops of lines 131-139 visit the entries of output_dict in order and
\* the items of each list in order
HasItem == pos[1] <= Len(output_dict)

key == output_dict[pos[1]].key

item == output_dict[pos[1]].list[pos[2]]

next_pos ==
    IF pos[2] < Len(output_dict[pos[1]].list)
    THEN <<pos[1], pos[2] + 1>>
    ELSE <<pos[1] + 1, 1>>

\* lines 133-135
EvaluateCategorical ==
    /\ pc = "evaluate"
    /\ HasItem
    /\ key = CATEGORICAL
    /\ result_df' = setitem(result_df, item.name, chisquare(item).ret)
    /\ pos' = next_pos
    /\ UNCHANGED <<pc, phenotype_df, cluster_labels_df, threshold, cluster_phenotype_df,
                   output_dict, file, adapterVars>>

\* lines 137-139
EvaluateContinuous ==
    /\ pc = "evaluate"
    /\ HasItem
    /\ key # CATEGORICAL
    /\ result_df' = setitem(result_df, item.name, f_oneway(item).ret)
    /\ pos' = next_pos
    /\ UNCHANGED <<pc, phenotype_df, cluster_labels_df, threshold, cluster_phenotype_df,
                   output_dict, file, adapterVars>>

\* the exception caught and the attribute skipped
EvaluateRaisesSkipped ==
    /\ pc = "evaluate"
    /\ HasItem
    /\ (IF key = CATEGORICAL THEN chisquare(item) ELSE f_oneway(item)).call # NoCall
    /\ pos' = next_pos
    /\ UNCHANGED <<pc, phenotype_df, cluster_labels_df, threshold, cluster_phenotype_df,
                   output_dict, result_df, file, adapterVars>>

\* the scipy.stats routine an adapter calls raises: nothing catches it
EvaluateRaises ==
    /\ pc = "evaluate"
    /\ HasItem
    /\ (IF key = CATEGORICAL THEN chisquare(item) ELSE f_oneway(item)).call # NoCall
    /\ pc' = "aborted"
    /\ UNCHANGED <<phenotype_df, cluster_labels_df, threshold, cluster_phenotype_df,
                   output_dict, pos, result_df, file, adapterVars>>

\* lines 141-143
Write ==
    /\ pc = "evaluate"
    /\ ~HasItem
    /\ file' = to_csv_T(result_df)
    /\ pc' = "done"
    /\ UNCHANGED <<phenotype_df, cluster_labels_df, threshold, cluster_phenotype_df,
                   output_dict, pos, result_df, adapterVars>>

Next ==
    \/ Combine
    \/ CombineRaises
    \/ Classify
    \/ EvaluateCategorical
    \/ EvaluateContinuous
    \/ EvaluateRaises
    \/ Write

Spec == Init /\ [][Next]_vars

-----------------------------------------------------------------------------
(* A test adapter called on a frame directly, as the unit test does *)

InitAdapters ==
    /\ pc = "idle"
    /\ phenotype_df = NoSpreadsheet
    /\ cluster_labels_df = <<>>
    /\ threshold = 0
    /\ cluster_phenotype_df = NoSpreadsheet
    /\ output_dict = <<>>
    /\ pos = <<1, 1>>
    /\ result_df = <<>>
    /\ file = <<>>
    /\ apc = <<"none", "ready">>
    /\ group \in UnitFrames
    /\ ret = <<>>
    /\ call = NoCall

Call_f_oneway ==
    /\ apc = <<"none", "ready">>
    /\ ret' = f_oneway(group).ret
    /\ call' = f_oneway(group).call
    /\ apc' = <<"f_oneway", "returned">>
    /\ UNCHANGED <<group, pipelineVars>>

Call_chisquare ==
    /\ apc = <<"none", "ready">>
    /\ ret' = chisquare(group).ret
    /\ call' = chisquare(group).call
    /\ apc' = <<"chisquare", "returned">>
    /\ UNCHANGED <<group, pipelineVars>>

\* the scipy.stats routine raises and the adapter returns nothing
Raise_f_oneway ==
    /\ apc = <<"none", "ready">>
    /\ f_oneway(group).call # NoCall
    /\ call' = f_oneway(group).call
    /\ apc' = <<"f_oneway", "raised">>
    /\ UNCHANGED <<group, ret, pipelineVars>>

Raise_chisquare ==
    /\ apc = <<"none", "ready">>
    /\ chisquare(group).call # NoCall
    /\ call' = chisquare(group).call
    /\ apc' = <<"chisquare", "raised">>
    /\ UNCHANGED <<group, ret, pipelineVars>>

NextAdapters ==
    \/ Call_f_oneway
    \/ Call_chisquare
    \/ Raise_f_oneway
    \/ Raise_chisquare

SpecAdapters == InitAdapters /\ [][NextAdapters]_vars

-----------------------------------------------------------------------------
(* Properties of the pipeline, checked under Spec *)

Combined == Len(cluster_phenotype_df.columns) > 0

Classified == pc \in {"evaluate", "done"}

\* the attribute columns of the combined table, by position
AttrColumns == 2..Len(cluster_phenotype_df.columns)

\* the distinct-value count of attribute column i after cleaning
NumUniq(i) == Cardinality({r.val : r \in Range(cleaned(cluster_phenotype_df, i).rows)})

\* how many times the attribute called name was appended to the group of kind
Appended(kind, name) ==
    Cardinality({<<e, j>> \in (1..Len(output_dict)) \X (1..Len(cluster_phenotype_df.columns)) :
                    /\ output_dict[e].key = kind
                    /\ j <= Len(output_dict[e].list)
                    /\ output_dict[e].list[j].name = name})

\* C1: after combine_phenotype_data_and_clustering the combined table has
\* exactly the rows and the attribute columns of the phenotype table, and its
\* Cluster_ID is the mapping's label for a sample of the mapping and missing
\* for any other sample.
C1_SampleAligner ==
    Combined =>
        /\ cluster_phenotype_df.index = phenotype_df.index
        /\ Tail(cluster_phenotype_df.columns) = phenotype_df.columns
        /\ cluster_phenotype_df.columns[1].name = "Cluster_ID"
        /\ Len(cluster_phenotype_df.columns[1].values) = Len(phenotype_df.index)
        /\ \A i \in 1..Len(phenotype_df.index) :
              IF phenotype_df.index[i] \in DOMAIN cluster_labels_df
              THEN cluster_phenotype_df.columns[1].values[i]
                       = cluster_labels_df[phenotype_df.index[i]]
              ELSE cluster_phenotype_df.columns[1].values[i] = NaN

\* a combined table with a sample of the mapping and a sample outside it
C1_Witness ==
    /\ Combined
    /\ \E i, j \in 1..Len(cluster_phenotype_df.index) :
          /\ cluster_phenotype_df.index[i] \in DOMAIN cluster_labels_df
          /\ cluster_phenotype_df.columns[1].values[i] \in ClusterLabels
          /\ cluster_phenotype_df.index[j] \notin DOMAIN cluster_labels_df
          /\ cluster_phenotype_df.columns[1].values[j] = NaN

\* C2 as claimed: a numeric attribute whose distinct-value count after
\* cleaning exceeds the threshold is appended once to CONTINUOUS and never to
\* CATEGORICAL.
C2_NumericAboveThresholdIsContinuous ==
    Classified =>
        \A i \in AttrColumns :
            (/\ cluster_phenotype_df.columns[i].dtype = "float64"
             /\ NumUniq(i) > threshold)
            => /\ Appended(CONTINUOUS, cluster_phenotype_df.columns[i].name) = 1
               /\ Appended(CATEGORICAL, cluster_phenotype_df.columns[i].name) = 0

\* C3: an attribute whose distinct-value count after cleaning does not exceed
\* the threshold is appended exactly once to CATEGORICAL and never to
\* CONTINUOUS, whatever its dtype and also when its cleaned group is empty.
C3_AtMostThresholdIsCategorical ==
    Classified =>
        \A i \in AttrColumns :
            NumUniq(i) <= threshold
            => /\ Appended(CATEGORICAL, cluster_phenotype_df.columns[i].name) = 1
               /\ Appended(CONTINUOUS, cluster_phenotype_df.columns[i].name) = 0
               /\ \E e \in 1..Len(output_dict) :
                     /\ output_dict[e].key = CATEGORICAL
                     /\ cleaned(cluster_phenotype_df, i) \in Range(output_dict[e].list)

\* a numeric column of missing values only, forwarded as an empty CATEGORICAL
\* group next to an object column that is CATEGORICAL too
C3_Witness ==
    /\ Classified
    /\ \E i, j \in AttrColumns :
          /\ cluster_phenotype_df.columns[i].dtype = "float64"
          /\ \A r \in 1..Len(cluster_phenotype_df.index) :
                cluster_phenotype_df.columns[i].values[r] = NaN
          /\ Len(cluster_phenotype_df.index) > 0
          /\ Appended(CATEGORICAL, cluster_phenotype_df.columns[i].name) = 1
          /\ cluster_phenotype_df.columns[j].dtype = "object"
          /\ NumUniq(j) = 1
          /\ NumUniq(j) = threshold
          /\ Appended(CATEGORICAL, cluster_phenotype_df.columns[j].name) = 1

-----------------------------------------------------------------------------
(* Properties of the test adapters, checked under SpecAdapters *)

Clusters(rows) == {r.Cluster_ID : r \in Range(rows)}

Traits(rows) == {r.val : r \in Range(rows)}

\* the number of rows with that cluster and that attribute value
Count(rows, c, v) ==
    Cardinality({i \in 1..Len(rows) : rows[i].Cluster_ID = c /\ rows[i].val = v})

\* C4: on an empty group either adapter returns its sentinel record, calls
\* no statistical routine and does not raise.
C4_EmptyGroupSentinel ==
    (apc[1] # "none" /\ group.rows = <<>>) =>
        /\ apc[2] = "returned"
        /\ call = NoCall
        /\ apc[1] = "f_oneway" => ret = <<"f_oneway", 0, 0, NaN, NaN>>
        /\ apc[1] = "chisquare" => ret = <<"chisquare", 0, 0, NaN, NaN>>

C4_Witness ==
    /\ group.rows = <<>>
    /\ apc[2] = "returned"
    /\ ret[1] = apc[1]

\* C5: f_oneway on a non-empty group of one cluster returns the record
\* ["f_oneway", distinct attribute values, rows, NaN, NaN] and does not call
\* the ANOVA routine.
C5_SingleClusterNaN ==
    (apc[1] = "f_oneway" /\ Cardinality(Clusters(group.rows)) = 1) =>
        /\ apc[2] = "returned"
        /\ call = NoCall
        /\ ret = <<"f_oneway", Cardinality(Traits(group.rows)), Len(group.rows), NaN, NaN>>

\* one cluster, several rows, more than one attribute value
C5_Witness ==
    /\ apc = <<"f_oneway", "returned">>
    /\ Cardinality(Clusters(group.rows)) = 1
    /\ Cardinality(Traits(group.rows)) >= 2
    /\ Len(group.rows) > Cardinality(Traits(group.rows))

\* C6: f_oneway on a group of two or more clusters hands the ANOVA routine
\* one non-empty list per cluster, in ascending cluster order, each list the
\* attribute values of the rows of its cluster in row order, and a record it
\* returns carries the number of distinct attribute values and the number of
\* rows; for the unit test's frame these are 3, 8 and the lists [6,22],
\* [18,6,18], [6,18], [22].
C6_AnovaPartition ==
    (apc[1] = "f_oneway" /\ Cardinality(Clusters(group.rows)) >= 2) =>
        /\ call.routine = "stats.f_oneway"
        /\ Len(call.args) = Cardinality(Clusters(group.rows))
        /\ \A c \in Clusters(group.rows) :
              LET k == Cardinality({d \in Clusters(group.rows) : Rank(d) < Rank(c)}) + 1
                  at == {i \in 1..Len(group.rows) : group.rows[i].Cluster_ID = c}
              IN /\ Len(call.args[k]) = Cardinality(at)
                 /\ call.args[k] # <<>>
                 /\ \A i \in at :
                       call.args[k][Cardinality({j \in at : j <= i})] = group.rows[i].val
        /\ apc[2] = "returned" =>
              /\ ret[1] = "f_oneway"
              /\ ret[2] = Cardinality(Traits(group.rows))
              /\ ret[3] = Len(group.rows)
        /\ group = UnitTestFrame =>
              /\ call.args = << <<"6", "22">>, <<"18", "6", "18">>, <<"6", "18">>, <<"22">> >>
              /\ apc[2] = "returned" => (ret[2] = 3 /\ ret[3] = 8)

C6_Witness ==
    /\ apc = <<"f_oneway", "returned">>
    /\ group = UnitTestFrame
    /\ Len(call.args) = 4

\* the one-to-one functions from S to T
OneToOne(S, T) == {f \in [S -> T] : \A x, y \in S : f[x] = f[y] => x = y}

RECURSIVE SumCells(_, _)
SumCells(t, cells) ==
    IF cells = {} THEN 0
    ELSE LET x == CHOOSE x \in cells : TRUE
         IN t[x[1]][x[2]] + SumCells(t, cells \ {x})

\* the cells of a table, summed
TableSum(t) == SumCells(t, UNION {{<<i, j>> : j \in DOMAIN t[i]} : i \in DOMAIN t})

\* C10: chisquare on a non-empty group builds a table of shape (distinct
\* clusters x distinct attribute values) whose cell (i, j) counts the rows
\* with the cluster of index i and the attribute value of index j, for a
\* one-to-one zero-based indexing of both; its cells sum to the row count,
\* no row and no column is all zero, and a record it returns carries the
\* number of distinct attribute values and the number of rows.
C10_ContingencyTable ==
    (apc[1] = "chisquare" /\ group.rows # <<>>) =>
        LET nc == Cardinality(Clusters(group.rows))
            np == Cardinality(Traits(group.rows))
            t == call.args
        IN /\ call.routine = "stats.chi2_contingency"
           /\ DOMAIN t = 0..(nc - 1)
           /\ \A i \in DOMAIN t : DOMAIN t[i] = 0..(np - 1)
           /\ \E ci \in OneToOne(Clusters(group.rows), 0..(nc - 1)) :
              \E vi \in OneToOne(Traits(group.rows), 0..(np - 1)) :
                 \A c \in Clusters(group.rows), v \in Traits(group.rows) :
                    t[ci[c]][vi[v]] = Count(group.rows, c, v)
           /\ TableSum(t) = Len(group.rows)
           /\ \A i \in 0..(nc - 1) : \E j \in 0..(np - 1) : t[i][j] > 0
           /\ \A j \in 0..(np - 1) : \E i \in 0..(nc - 1) : t[i][j] > 0
           /\ apc[2] = "returned" =>
                 ret = <<"chisquare", np, Len(group.rows), "chi", "pval">>

\* a table of two rows and two columns with a cell above one and a zero cell
C10_Witness ==
    /\ apc = <<"chisquare", "returned">>
    /\ Cardinality(Clusters(group.rows)) = 2
    /\ Cardinality(Traits(group.rows)) = 2
    /\ \E i, j \in 0..1 : call.args[i][j] = 2
    /\ \E i, j \in 0..1 : call.args[i][j] = 0

-----------------------------------------------------------------------------
(* Properties of the summary, checked under Spec *)

\* the columns written, as <<attribute name, measure>>, in file order
Written == [c \in 1..(Len(file) - 1) |-> <<file[c + 1][1], file[c + 1][2]>>]

\* the position of the attribute called name in the phenotype spreadsheet
ColPos(name) ==
    CHOOSE i \in 1..Len(phenotype_df.columns) : phenotype_df.columns[i].name = name

\* attribute columns that are high-cardinality text: read as str, more
\* distinct cleaned values than the threshold
HighCardinalityText ==
    {i \in AttrColumns : /\ cluster_phenotype_df.columns[i].dtype = "object"
                         /\ NumUniq(i) > threshold}

\* C7 as claimed: the summary has exactly one column per attribute column
\* that is not high-cardinality text, labelled with the attribute's name.
C7_OneColumnPerKeptAttribute ==
    pc = "done" =>
        /\ Len(Written) = Cardinality(AttrColumns) - Cardinality(HighCardinalityText)
        /\ \A i \in AttrColumns \ HighCardinalityText :
              Cardinality({c \in 1..Len(Written) :
                              Written[c][1] = cluster_phenotype_df.columns[i].name}) = 1

C9_NoPartialSummary ==
    /\ pc = "aborted" => file = <<>>
    /\ file # <<>> =>
          /\ pc = "done"
          /\ \A e \in 1..Len(output_dict) : \A j \in 1..Len(output_dict[e].list) :
                \E c \in 1..Len(Written) :
                    /\ Written[c][1] = output_dict[e].list[j].name
                    /\ Written[c][2] = (IF output_dict[e].key = CATEGORICAL
                                        THEN "chisquare" ELSE "f_oneway")

\* a run aborted by the test of its second attribute, after the first one's
\* record was collected
C9_Witness ==
    /\ pc = "aborted"
    /\ Len(result_df) >= 1
    /\ pos = <<1, 2>>
    /\ file = <<>>

====
